---------------------------- MODULE Spec2Model ----------------------------
(***************************************************************************)
(* A model of playing_cards.py: PlayingCard construction, the Deck's      *)
(* list-valued state and its operations (cut, the three deals, add_card,  *)
(* out_faro, in_faro) and the deck factories.                              *)
(*                                                                         *)
(* Python lists are 0-based and TLA+ sequences 1-based: the Card at       *)
(* Python index i is cards[i + 1].                                         *)
(***************************************************************************)
EXTENDS Integers, Sequences, FiniteSets, TLC

VARIABLES
    cards,      \* Deck.cards: the list of PlayingCards (or None holes)
    pre,        \* Deck.cards before the last operation
    pre2,       \* Deck.cards before the operation before the last one
    op,         \* the last operation called and its arguments
    op2,        \* the operation called before the last one
    ret,        \* what the last operation returned
    raised,     \* the exception the last call raised, or "none"
    nops,       \* the number of operations called so far
    base,       \* Deck.cards at the start of the current run of balanced out-faros
    faros,      \* the number of consecutive balanced out-faros since base
    card        \* the last PlayingCard constructed (SpecCard)

vars == <<cards, pre, pre2, op, op2, ret, raised, nops, base, faros, card>>

-----------------------------------------------------------------------------
(* Bounds of the model. *)

\* Decks start with 0..MaxLen cards; add_card stops at MaxLen cards.
MaxLen == 5
\* The number of operations in a behaviour of Spec.
MaxOps == 2
\* The number of operations in a behaviour of SpecFaro.
MaxFaroOps == 1
\* Decks of SpecCycle start with 0..MaxCycleLen cards (and the factory decks).
MaxCycleLen == 32
\* The number of balanced out-faros in a behaviour of SpecCycle.
MaxFaros == 8
\* Integer arguments of PlayingCard range over -IntSpan..IntSpan.
IntSpan == 16
\* The number of PlayingCards constructed in a behaviour of SpecCard.
MaxCards == 1

-----------------------------------------------------------------------------
(* Python values and list operations. *)

\* Python's None: what a function without a return statement returns, and
\* what out_faro and in_faro pre-fill the new list with.
None == [none |-> TRUE]

Min(a, b) == IF a < b THEN a ELSE b
Max(a, b) == IF a > b THEN a ELSE b

\* The 0-based position a slice bound i denotes in a list of n items:
\* a negative bound counts from the end, and both ends are clamped.
SliceBound(i, n) == IF i < 0 THEN Max(i + n, 0) ELSE Min(i, n)

\* s[k:]
SliceFrom(s, k) == SubSeq(s, SliceBound(k, Len(s)) + 1, Len(s))

\* s[:k]
SliceTo(s, k) == SubSeq(s, 1, SliceBound(k, Len(s)))

\* The index of the first item of s equal to x (list.index), 0-based.
IndexOf(s, x) == (CHOOSE i \in 1..Len(s) : s[i] = x /\ \A j \in 1..(i - 1) : s[j] # x) - 1

\* x in s
InList(s, x) == \E i \in 1..Len(s) : s[i] = x

\* s[i] for an integer i: a negative i counts from the end; an i outside
\* the list raises IndexError.
ListHas(s, i) == i >= -Len(s) /\ i < Len(s)
ListGet(s, i) == IF i < 0 THEN s[i + Len(s) + 1] ELSE s[i + 1]

-----------------------------------------------------------------------------
(* PlayingCard. *)

VALUES == <<"Joker", "Ace", "Two", "Three", "Four", "Five", "Six",
            "Seven", "Eight", "Nine", "Ten", "Jack", "Queen", "King">>

SUITS == <<"Clubs", "Hearts", "Spades", "Diamonds">>

\* The strings the model passes to PlayingCard, and str.title() of each.
ValueStrings == {"ace", "KING", "Queen", "joker", "Eleven"}
SuitStrings == {"Clubs", "Hearts", "Spades", "Diamonds", "hearts", "SPADES", "stars"}
Title(s) ==
    CASE s = "ace" -> "Ace"
      [] s = "KING" -> "King"
      [] s = "joker" -> "Joker"
      [] s = "hearts" -> "Hearts"
      [] s = "SPADES" -> "Spades"
      [] s = "stars" -> "Stars"
      [] OTHER -> s

\* An argument of PlayingCard is an int or a str.
IntArg(i) == [type |-> "int", v |-> i]
StrArg(s) == [type |-> "str", v |-> s]

\* The value half of __init__: the exception raised, or the attributes set.
InitValue(value) ==
    IF value.type = "int"
    THEN IF value.v > 13
         THEN [raised |-> "ValueError"]
         ELSE IF ~ListHas(VALUES, value.v)
              THEN [raised |-> "IndexError"]
              ELSE [raised |-> "none", value |-> value.v,
                    value_name |-> ListGet(VALUES, value.v)]
    ELSE IF ~InList(VALUES, Title(value.v))
         THEN [raised |-> "ValueError"]
         ELSE [raised |-> "none", value |-> IndexOf(VALUES, Title(value.v)),
               value_name |-> Title(value.v)]

\* The suit half of __init__.
InitSuit(suit) ==
    IF suit.type = "int"
    THEN IF suit.v > 3
         THEN [raised |-> "ValueError"]
         ELSE IF ~ListHas(SUITS, suit.v)
              THEN [raised |-> "IndexError"]
              ELSE [raised |-> "none", suit |-> suit.v,
                    suit_name |-> ListGet(SUITS, suit.v)]
    ELSE IF ~InList(SUITS, Title(suit.v))
         THEN [raised |-> "ValueError"]
         ELSE [raised |-> "none", suit |-> IndexOf(SUITS, Title(suit.v)),
               suit_name |-> Title(suit.v)]

\* PlayingCard(value, suit): the exception raised and the object built.
\* The name " ".join((value_name, "of", suit_name)) is kept as its parts.
PlayingCard(value, suit) ==
    LET v == InitValue(value)
        s == InitSuit(suit)
    IN  IF v.raised # "none" THEN [raised |-> v.raised, card |-> None]
        ELSE IF s.raised # "none" THEN [raised |-> s.raised, card |-> None]
        ELSE [raised |-> "none",
              card |-> [value |-> v.value, suit |-> s.suit,
                        value_name |-> v.value_name, suit_name |-> s.suit_name,
                        name |-> IF v.value = 0 THEN <<"Joker">>
                                 ELSE <<v.value_name, "of", s.suit_name>>]]

\* PlayingCard.__eq__
CardEq(a, b) == a.value = b.value /\ a.suit = b.suit


-----------------------------------------------------------------------------
(* The deck factories. *)

suitOrder(mode) ==
    IF mode = "US" THEN <<"Hearts", "Clubs", "Diamonds", "Spades">>
    ELSE <<"Spades", "Hearts", "Diamonds", "Clubs">>

\* makeDeckInNewDeckOrder(mode), mode one of "US" and "European": the first
\* two suits run Ace to King, the last two King to Ace.
makeDeckInNewDeckOrder(mode) ==
    [i \in 1..52 |->
        LET blk == (i - 1) \div 13
            j == (i - 1) % 13
        IN  PlayingCard(IntArg(IF blk < 2 THEN j + 1 ELSE 13 - j),
                        StrArg(suitOrder(mode)[blk + 1])).card]

\* makeEuchreDeck(): per suit the values 9..13, then the Ace.
makeEuchreDeck ==
    [i \in 1..24 |->
        LET s == (i - 1) \div 6
            j == (i - 1) % 6
        IN  PlayingCard(IntArg(IF j < 5 THEN 9 + j ELSE 1), StrArg(SUITS[s + 1])).card]

\* makePinochleDeck(): per suit two copies of each value 9..13, then two Aces.
makePinochleDeck ==
    [i \in 1..48 |->
        LET s == (i - 1) \div 12
            j == ((i - 1) % 12) \div 2
        IN  PlayingCard(IntArg(IF j < 5 THEN 9 + j ELSE 1), StrArg(SUITS[s + 1])).card]

-----------------------------------------------------------------------------
(* Deck: each operation as a function of the list it is called on. *)

\* Deck.__init__: list(playing_cards).
Deck(playing_cards) == playing_cards

\* cut with the -1 of the default taken as a number of cards.
DeckCutNoDefault(cs, cards_off_top) ==
    SliceFrom(cs, cards_off_top) \o SliceTo(cs, cards_off_top)

\* cut with the default taken for 0 as well.
DeckCutZeroDefault(cs, cards_off_top) ==
    LET k == IF cards_off_top \in {-1, 0} THEN Len(cs) \div 2 ELSE cards_off_top
    IN  SliceFrom(cs, k) \o SliceTo(cs, k)

\* Deck.cut: the new list.
DeckCut(cs, cards_off_top) ==
    LET k == IF cards_off_top = -1 THEN Len(cs) \div 2 ELSE cards_off_top
    IN  SliceFrom(cs, k) \o SliceTo(cs, k)

\* list.pop(i) for 0 <= i < len: the list without the item at index i.
Pop(cs, i) == SubSeq(cs, 1, i) \o SubSeq(cs, i + 2, Len(cs))

\* second_deal popping index 0.
DeckSecondDealTop(cs) ==
    IF Len(cs) >= 2 THEN [cards |-> Pop(cs, 0), ret |-> cs[1]]
    ELSE [cards |-> cs, ret |-> None]

\* Deck.deal_top_card: the new list and the value returned.
DeckDealTopCard(cs) ==
    IF Len(cs) # 0 THEN [cards |-> Pop(cs, 0), ret |-> cs[1]]
    ELSE [cards |-> cs, ret |-> None]

\* Deck.bottom_deal
DeckBottomDeal(cs) ==
    IF Len(cs) # 0 THEN [cards |-> Pop(cs, Len(cs) - 1), ret |-> cs[Len(cs)]]
    ELSE [cards |-> cs, ret |-> None]

\* Deck.second_deal
DeckSecondDeal(cs) ==
    IF Len(cs) >= 2 THEN [cards |-> Pop(cs, 1), ret |-> cs[2]]
    ELSE [cards |-> cs, ret |-> None]

\* Deck.add_card
DeckAddCard(cs, c) == Append(cs, c)

\* out_faro's position without the + 1 before the modulo.
OutFaroPositionNoAdjust(i, n) ==
    IF i * 2 >= n THEN (i * 2) % n ELSE i * 2

\* The balanced out_faro's newPosition of the card at index i of n cards.
OutFaroPosition(i, n) ==
    IF i * 2 >= n THEN (i * 2 + 1) % n ELSE i * 2

\* The balanced in_faro's newPosition of the card at index i of n cards.
InFaroPosition(i, n) ==
    IF i * 2 + 1 >= n THEN (i * 2 + 1 - 1) % n ELSE i * 2 + 1

\* The balanced branch's loop from index i on: newDeck[newPosition] = card,
\* in the order of enumerate(self.cards), a later card overwriting an earlier.
\* position[i] is the newPosition of the card at index i.
RECURSIVE Place(_, _, _, _)
Place(newDeck, cs, i, position) ==
    IF i >= Len(cs) THEN newDeck
    ELSE Place([newDeck EXCEPT ![position[i] + 1] = cs[i + 1]], cs, i + 1, position)

\* The balanced branch of out_faro: newDeck starts as None for every index.
BalancedOutFaro(cs) ==
    Place([p \in 1..Len(cs) |-> None], cs, 0,
          [i \in 0..(Len(cs) - 1) |-> OutFaroPosition(i, Len(cs))])

\* The balanced branch of in_faro.
BalancedInFaro(cs) ==
    Place([p \in 1..Len(cs) |-> None], cs, 0,
          [i \in 0..(Len(cs) - 1) |-> InFaroPosition(i, Len(cs))])

\* The explicit branch's packet sizes: a size of 0 is replaced by the rest
\* of the deck, the bottom size first.
TopSize(n, on_top, on_bottom) ==
    IF on_bottom = 0 THEN on_top
    ELSE IF on_top = 0 THEN n - on_bottom ELSE on_top

BottomSize(n, on_top, on_bottom) ==
    IF on_bottom = 0 THEN n - on_top ELSE on_bottom

\* topHalf = self.cards[:number_of_cards_on_top]
TopHalf(cs, on_top, on_bottom) ==
    SliceTo(cs, TopSize(Len(cs), on_top, on_bottom))

\* bottomHalf taken as self.cards[number_of_cards_on_bottom:]
BottomHalfFromTop(cs, on_top, on_bottom) ==
    SliceFrom(cs, BottomSize(Len(cs), on_top, on_bottom))

\* bottomHalf = self.cards[-number_of_cards_on_bottom:]
BottomHalf(cs, on_top, on_bottom) ==
    SliceFrom(cs, 0 - BottomSize(Len(cs), on_top, on_bottom))

\* The explicit branch's loop from iteration i on: append first[i], then
\* second[i], each skipped when the index is past the packet's end (the
\* IndexError the loop swallows).
RECURSIVE Weave(_, _, _, _)
Weave(newDeck, first, second, i) ==
    IF i >= Max(Len(first), Len(second)) THEN newDeck
    ELSE LET a == IF i < Len(first) THEN Append(newDeck, first[i + 1]) ELSE newDeck
             b == IF i < Len(second) THEN Append(a, second[i + 1]) ELSE a
         IN  Weave(b, first, second, i + 1)

\* Deck.out_faro: the new list.
DeckOutFaro(cs, on_top, on_bottom) ==
    IF on_bottom = 0 /\ on_top = 0
    THEN BalancedOutFaro(cs)
    ELSE Weave(<<>>, TopHalf(cs, on_top, on_bottom),
               BottomHalf(cs, on_top, on_bottom), 0)

\* Deck.in_faro: the new list.
DeckInFaro(cs, on_top, on_bottom) ==
    IF on_bottom = 0 /\ on_top = 0
    THEN BalancedInFaro(cs)
    ELSE Weave(<<>>, BottomHalf(cs, on_top, on_bottom),
               TopHalf(cs, on_top, on_bottom), 0)

-----------------------------------------------------------------------------
(* The state machine: one Deck object and the calls made on it. *)

Call(name, a, b) == [name |-> name, a |-> a, b |-> b]
NoCall == Call("none", 0, 0)

\* A call of a Deck method that leaves newCards in self.cards and returns r.
Called(name, a, b, newCards, r) ==
    /\ cards' = newCards
    /\ pre' = cards
    /\ pre2' = pre
    /\ op' = Call(name, a, b)
    /\ op2' = op
    /\ ret' = r
    /\ raised' = "none"
    /\ nops' = nops + 1
    /\ IF name = "out_faro" /\ a = 0 /\ b = 0
       THEN base' = base /\ faros' = faros + 1
       ELSE base' = newCards /\ faros' = 0
    /\ UNCHANGED card

cut(cards_off_top) ==
    Called("cut", cards_off_top, 0, DeckCut(cards, cards_off_top), None)

deal_top_card ==
    LET r == DeckDealTopCard(cards)
    IN  Called("deal_top_card", 0, 0, r.cards, r.ret)

bottom_deal ==
    LET r == DeckBottomDeal(cards)
    IN  Called("bottom_deal", 0, 0, r.cards, r.ret)

second_deal ==
    LET r == DeckSecondDeal(cards)
    IN  Called("second_deal", 0, 0, r.cards, r.ret)

add_card(c) ==
    Called("add_card", 0, 0, DeckAddCard(cards, c), None)

out_faro(number_of_cards_on_top, number_of_cards_on_bottom) ==
    Called("out_faro", number_of_cards_on_top, number_of_cards_on_bottom,
           DeckOutFaro(cards, number_of_cards_on_top, number_of_cards_on_bottom), None)

in_faro(number_of_cards_on_top, number_of_cards_on_bottom) ==
    Called("in_faro", number_of_cards_on_top, number_of_cards_on_bottom,
           DeckInFaro(cards, number_of_cards_on_top, number_of_cards_on_bottom), None)

\* PlayingCard(value, suit): the object built, or the exception raised.
NewPlayingCard(value, suit) ==
    LET r == PlayingCard(value, suit)
    IN  /\ card' = r.card
        /\ raised' = r.raised
        /\ op' = Call("PlayingCard", value, suit)
        /\ nops' = nops + 1
        /\ UNCHANGED <<cards, pre, pre2, op2, ret, base, faros>>

\* State before any call, on a Deck built from playing_cards.
Start(playing_cards) ==
    /\ cards = Deck(playing_cards)
    /\ pre = cards
    /\ pre2 = cards
    /\ op = NoCall
    /\ op2 = NoCall
    /\ ret = None
    /\ raised = "none"
    /\ nops = 0
    /\ base = cards
    /\ faros = 0
    /\ card = None

\* The decks a behaviour starts from: the first n cards of a new deck (all
\* different) and of a Pinochle deck (each card twice).
SmallDecks ==
    {SubSeq(makeDeckInNewDeckOrder("US"), 1, n) : n \in 0..MaxLen}
        \cup {SubSeq(makePinochleDeck, 1, n) : n \in 0..MaxLen}

\* The cards add_card is called with.
NewCards ==
    {PlayingCard(IntArg(0), IntArg(0)).card,
     PlayingCard(StrArg("ace"), StrArg("SPADES")).card}

\* The arguments cut is called with: in and out of 0..len, -1 the default.
CutArgs == (0 - (MaxLen + 2))..(MaxLen + 2)

\* The packet sizes the faros are called with: 0 is "not given".
FaroArgs == 0..(MaxLen + 1)

(* Spec: cuts, deals and add_card on a small deck. *)
Init == \E d \in SmallDecks : Start(d)

Next ==
    \/ \E k \in CutArgs : nops < MaxOps /\ cut(k)
    \/ nops < MaxOps /\ deal_top_card
    \/ nops < MaxOps /\ bottom_deal
    \/ nops < MaxOps /\ second_deal
    \/ \E c \in NewCards : nops < MaxOps /\ Len(cards) < MaxLen /\ add_card(c)

Spec == Init /\ [][Next]_vars

(* SpecFaro: out_faro and in_faro, balanced and with explicit packets. *)
NextFaro ==
    \/ \E t \in FaroArgs, b \in FaroArgs : nops < MaxFaroOps /\ out_faro(t, b)
    \/ \E t \in FaroArgs, b \in FaroArgs : nops < MaxFaroOps /\ in_faro(t, b)

SpecFaro == Init /\ [][NextFaro]_vars

(* SpecCycle: repeated balanced out-faros, on decks up to the full ones. *)
CycleDecks ==
    {SubSeq(makeDeckInNewDeckOrder("US"), 1, n) : n \in 0..MaxCycleLen}
        \cup {makeDeckInNewDeckOrder("US"), makeDeckInNewDeckOrder("European"),
              makeEuchreDeck, makePinochleDeck}

InitCycle == \E d \in CycleDecks : Start(d)

NextCycle == faros < MaxFaros /\ out_faro(0, 0)

SpecCycle == InitCycle /\ [][NextCycle]_vars

(* SpecCard: construction of PlayingCards from ints and strings. *)
ValueArgs ==
    {IntArg(i) : i \in (0 - IntSpan)..IntSpan} \cup {StrArg(x) : x \in ValueStrings}

SuitArgs ==
    {IntArg(i) : i \in (0 - IntSpan)..IntSpan} \cup {StrArg(x) : x \in SuitStrings}

InitCard == Start(<<>>)

NextCard == \E v \in ValueArgs, s \in SuitArgs : nops < MaxCards /\ NewPlayingCard(v, s)

SpecCard == InitCard /\ [][NextCard]_vars

-----------------------------------------------------------------------------
(* Properties. *)

\* The number of items of s equal to x.
Count(s, x) == Cardinality({i \in 1..Len(s) : s[i] = x})

\* s and t hold the same items, each as many times.
SameCards(s, t) ==
    /\ Len(s) = Len(t)
    /\ \A i \in 1..Len(s) : Count(s, s[i]) = Count(t, s[i])

\* s with its first m items moved to the end, 0 <= m <= Len(s).
Rotated(s, m) == [i \in 1..Len(s) |-> s[((i - 1 + m) % Len(s)) + 1]]

\* new is old without its i-th item (1-based), the rest in order.
Removed(old, new, i) ==
    /\ Len(new) = Len(old) - 1
    /\ \A j \in 1..Len(new) : new[j] = IF j < i THEN old[j] ELSE old[j + 1]

RECURSIVE IsPowerOfTwo(_)
IsPowerOfTwo(n) == n >= 1 /\ (n = 1 \/ (n % 2 = 0 /\ IsPowerOfTwo(n \div 2)))

\* log2 of a power of two.
RECURSIVE Log2(_)
Log2(n) == IF n <= 1 THEN 0 ELSE 1 + Log2(n \div 2)

IsFaro == op.name \in {"out_faro", "in_faro"}
IsBalanced == op.a = 0 /\ op.b = 0

\* C1: for a deck of n cards and 0 <= k <= n, cut(k) followed by cut(n - k)
\* leaves the deck with the card sequence it had before the two cuts.
C1_CutThenComplementRestores ==
    (/\ op2.name = "cut"
     /\ op.name = "cut"
     /\ op2.a \in 0..Len(pre2)
     /\ op.a = Len(pre2) - op2.a)
        => cards = pre2

C1_Witness ==
    /\ op2.name = "cut"
    /\ op.name = "cut"
    /\ Len(pre2) >= 3
    /\ op2.a \in 1..(Len(pre2) - 1)
    /\ op.a = Len(pre2) - op2.a
    /\ pre # pre2
    /\ cards = pre2

\* C2: a balanced out_faro or in_faro is lossless for every deck length: the
\* deck keeps its length, holds the same cards as many times as before, and
\* no position is left None.
C2_BalancedFaroLossless ==
    (IsFaro /\ IsBalanced)
        => /\ Len(cards) = Len(pre)
           /\ \A i \in 1..Len(cards) : cards[i] # None
           /\ SameCards(pre, cards)

\* C3: after a balanced out_faro on a deck of n >= 1 cards, the card at
\* index 0 and the card at index n - 1 are the ones that were there before.
C3_OutFaroKeepsTopAndBottom ==
    (op.name = "out_faro" /\ IsBalanced /\ Len(pre) >= 1)
        => /\ Len(cards) = Len(pre)
           /\ cards[1] = pre[1]
           /\ cards[Len(pre)] = pre[Len(pre)]

C3_Witness ==
    /\ op.name = "out_faro"
    /\ IsBalanced
    /\ Len(pre) >= 5
    /\ Len(pre) % 2 = 1
    /\ cards # pre
    /\ cards[1] = pre[1]
    /\ cards[Len(pre)] = pre[Len(pre)]

\* C4: after a balanced in_faro on a deck of n >= 2 cards, the card that was
\* at index 0 is at index 1 and the card that was at index n - 1 is at
\* index n - 2.
C4_InFaroMovesEndsInward ==
    (op.name = "in_faro" /\ IsBalanced /\ Len(pre) >= 2)
        => /\ Len(cards) = Len(pre)
           /\ cards[2] = pre[1]
           /\ cards[Len(pre) - 1] = pre[Len(pre)]

\* C5: on a deck whose length n is a power of two, log2(n) balanced
\* out_faros in a row restore the original order; on a deck of 52 cards,
\* 8 balanced out_faros in a row do.
C5_OutFaroCycle ==
    /\ (IsPowerOfTwo(Len(base)) /\ faros = Log2(Len(base))) => cards = base
    /\ (Len(base) = 52 /\ faros = 8) => cards = base

C5_Witness ==
    /\ Len(base) = 52
    /\ faros = 8
    /\ op.name = "out_faro"
    /\ pre # base
    /\ cards = base

\* C6: a faro called with one packet size g only, 1 <= g <= length (the
\* other 0), weaves g cards with the other length - g: the result has
\* length cards and is a rearrangement of the deck.
C6_OneSizeFaroRearranges ==
    (/\ IsFaro
     /\ \/ op.a \in 1..Len(pre) /\ op.b = 0
        \/ op.a = 0 /\ op.b \in 1..Len(pre))
        => SameCards(pre, cards)

\* C7: a deal on a deck with too few cards (none for deal_top_card and
\* bottom_deal, fewer than two for second_deal) returns None, raises nothing
\* and leaves the deck as it was; otherwise it returns the card at index 0 /
\* the last index / index 1 and removes exactly that card, the others
\* keeping their order.
C7_Deals ==
    /\ op.name = "deal_top_card" =>
          /\ raised = "none"
          /\ IF Len(pre) = 0 THEN ret = None /\ cards = pre
             ELSE ret = pre[1] /\ Removed(pre, cards, 1)
    /\ op.name = "bottom_deal" =>
          /\ raised = "none"
          /\ IF Len(pre) = 0 THEN ret = None /\ cards = pre
             ELSE ret = pre[Len(pre)] /\ Removed(pre, cards, Len(pre))
    /\ op.name = "second_deal" =>
          /\ raised = "none"
          /\ IF Len(pre) < 2 THEN ret = None /\ cards = pre
             ELSE ret = pre[2] /\ Removed(pre, cards, 2)

C7_Witness ==
    /\ op2.name = "deal_top_card"
    /\ Len(pre2) = 2
    /\ op.name = "second_deal"
    /\ Len(pre) = 1
    /\ ret = None
    /\ cards = pre

\* C8 as claimed: cut(k) with k outside 0..length raises an invalid-argument
\* error (ValueError) and leaves the deck unchanged.
C8_CutRejectsOutOfRange ==
    (op.name = "cut" /\ op.a \notin 0..Len(pre))
        => raised = "ValueError" /\ cards = pre

\* The number of cards cut(k) moves to the bottom for k outside 0..length.
WrappedCut(k, n) ==
    IF k = -1 THEN n \div 2
    ELSE IF k > n \/ k < 0 - n THEN 0
    ELSE n + k

\* C8 as amended: cut(k) with k outside 0..length raises nothing; -1 cuts at
\* length div 2, k > length and k < -length leave the deck unchanged, and
\* -length <= k <= -2 moves the first length + k cards to the bottom.
C8_CutOutOfRangeWraps ==
    (op.name = "cut" /\ op.a \notin 0..Len(pre))
        => raised = "none" /\ cards = Rotated(pre, WrappedCut(op.a, Len(pre)))

C8_Witness ==
    /\ op.name = "cut"
    /\ Len(pre) = 5
    /\ op.a = -2
    /\ raised = "none"
    /\ cards # pre
    /\ cards = Rotated(pre, 3)

\* C9: constructing a PlayingCard from integers fails whenever the value is
\* outside 0..13 or the suit is outside 0..3, so a card that is constructed
\* has its value in 0..13 and its suit in 0..3.  Any exception raised is
\* taken for the failure claimed (the code raises ValueError above the
\* range and IndexError far enough below it).
C9_OrdinalsValidated ==
    (op.name = "PlayingCard" /\ op.a.type = "int" /\ op.b.type = "int")
        => /\ (op.a.v \notin 0..13 \/ op.b.v \notin 0..3) => raised # "none"
           /\ raised = "none" => card.value \in 0..13 /\ card.suit \in 0..3

\* C10: a faro with both packet sizes given, 1 <= t <= length and
\* 1 <= b <= length, weaves the first t cards with the last b cards: the
\* result has t + b cards, pairs top[i], bottom[i] (out_faro) or bottom[i],
\* top[i] (in_faro) for i < min(t, b), then the rest of the longer packet.
C10_ExplicitFaroWeave ==
    (IsFaro /\ op.a \in 1..Len(pre) /\ op.b \in 1..Len(pre))
        => LET t == op.a
               b == op.b
               top == SubSeq(pre, 1, t)
               bottom == SubSeq(pre, Len(pre) - b + 1, Len(pre))
               m == Min(t, b)
               longer == IF t > b THEN top ELSE bottom
               first == IF op.name = "out_faro" THEN top ELSE bottom
               second == IF op.name = "out_faro" THEN bottom ELSE top
           IN  /\ Len(cards) = t + b
               /\ \A i \in 0..(m - 1) :
                     cards[2 * i + 1] = first[i + 1] /\ cards[2 * i + 2] = second[i + 1]
               /\ \A j \in 1..(Max(t, b) - m) : cards[2 * m + j] = longer[m + j]

C10_Witness ==
    /\ op.name = "in_faro"
    /\ Len(pre) = 5
    /\ op.a = 4
    /\ op.b = 3
    /\ Len(cards) = 7
    /\ cards[1] = pre[3]
    /\ cards[2] = pre[1]
    /\ cards[7] = pre[4]

=============================================================================
